---- MODULE Spec2Model ----
(***************************************************************************)
(* A model of fuidshift.py: the boundary-aware id shift (shift_id), the    *)
(* POSIX ACL xattr codec (modify_acl_blob), the per-entry protocol         *)
(* (shift_file) and the bottom-up walk of main().                          *)
(*                                                                         *)
(* Widths.  The codec's layout is kept as the source has it: a 4-byte      *)
(* little-endian header, then 8-byte entries of a 2-byte tag, a 2-byte     *)
(* permission field and a 4-byte id.  A byte holds ByteBase values instead *)
(* of 256, so that the largest id, IdMax = ByteBase^4 - 1, and the sums    *)
(* id + offset around it stay inside TLC's integers.  Ids of the file      *)
(* system (uid_t, gid_t) have the same width as the id field of an entry.  *)
(***************************************************************************)
EXTENDS Integers, Sequences, FiniteSets, TLC

\* ------------------------------------------------------------------ bounds
ByteBase == 8
MaxEntries == 2
MaxRuns == 2

\* --------------------------------------------------------------- constants
ACL_EA_VERSION == 2
ACL_TAG_USER == 2
ACL_TAG_GROUP == 8
ACL_ENTRY_SIZE == 8
ACL_HEADER_SIZE == 4

RECURSIVE Pow(_, _)
Pow(b, n) == IF n = 0 THEN 1 ELSE b * Pow(b, n - 1)

\* The largest value of the 4-byte id field ('I'), and of uid_t / gid_t.
IdMax == Pow(ByteBase, 4) - 1

\* ------------------------------------------------------------- struct codec
\* struct.unpack of one little-endian unsigned field.
RECURSIVE unpack_le(_)
unpack_le(bytes) ==
    IF bytes = <<>> THEN 0 ELSE Head(bytes) + ByteBase * unpack_le(Tail(bytes))

\* struct.pack of one little-endian unsigned field of n bytes; pack_ok is the
\* range test whose failure raises struct.error.
pack_ok(value, n) == value >= 0 /\ value < Pow(ByteBase, n)

pack_le(value, n) == [i \in 1..n |-> (value \div Pow(ByteBase, i - 1)) % ByteBase]

\* struct.unpack_from(ACL_ENTRY_FORMAT, blob, entry_offset): '<HHI'.
unpack_entry(blob, entry_offset) ==
    [tag  |-> unpack_le(SubSeq(blob, entry_offset + 1, entry_offset + 2)),
     perm |-> unpack_le(SubSeq(blob, entry_offset + 3, entry_offset + 4)),
     id   |-> unpack_le(SubSeq(blob, entry_offset + 5, entry_offset + 8))]

\* struct.pack(ACL_ENTRY_FORMAT, tag, perm, new_id): '<HHI'.
pack_entry_ok(tag, perm, new_id) ==
    pack_ok(tag, 2) /\ pack_ok(perm, 2) /\ pack_ok(new_id, 4)

pack_entry(tag, perm, new_id) ==
    pack_le(tag, 2) \o pack_le(perm, 2) \o pack_le(new_id, 4)

\* ---------------------------------------------------------------- shift_id
Abs(x) == IF x < 0 THEN -x ELSE x

shift_id_offByOne(current_id, offset) ==
    IF offset > 0
    THEN IF current_id <= Abs(offset) THEN current_id + offset ELSE current_id
    ELSE IF current_id > Abs(offset) THEN current_id + offset ELSE current_id

shift_id(current_id, offset) ==
    LET abs_offset == Abs(offset)
    IN  IF offset > 0
        THEN IF current_id < abs_offset THEN current_id + offset ELSE current_id
        ELSE IF current_id >= abs_offset THEN current_id + offset ELSE current_id

\* ---------------------------------------------------------- modify_acl_blob
\* The id an entry is re-encoded with.
new_id_of_always(tag, old_id, offset) ==
    IF tag \in {ACL_TAG_USER, ACL_TAG_GROUP} THEN old_id + offset ELSE old_id

new_id_of_shiftAll(tag, old_id, offset) == shift_id(old_id, offset)

new_id_of(tag, old_id, offset) ==
    IF tag \in {ACL_TAG_USER, ACL_TAG_GROUP} THEN shift_id(old_id, offset) ELSE old_id

\* The loop over the entries: the blob built so far, or the struct.error that
\* a pack out of range raises.
RECURSIVE acl_loop_keepsOnError(_, _, _, _, _)
acl_loop_keepsOnError(blob, offset, i, num_entries, new_blob) ==
    IF i = num_entries
    THEN [exc |-> "none", val |-> new_blob]
    ELSE LET e      == unpack_entry(blob, ACL_HEADER_SIZE + (i * ACL_ENTRY_SIZE))
             new_id == new_id_of(e.tag, e.id, offset)
         IN  acl_loop_keepsOnError(blob, offset, i + 1, num_entries,
                 new_blob \o (IF pack_entry_ok(e.tag, e.perm, new_id)
                              THEN pack_entry(e.tag, e.perm, new_id)
                              ELSE pack_entry(e.tag, e.perm, e.id)))

RECURSIVE acl_loop(_, _, _, _, _)
acl_loop(blob, offset, i, num_entries, new_blob) ==
    IF i = num_entries
    THEN [exc |-> "none", val |-> new_blob]
    ELSE LET e      == unpack_entry(blob, ACL_HEADER_SIZE + (i * ACL_ENTRY_SIZE))
             new_id == new_id_of(e.tag, e.id, offset)
         IN  IF ~pack_entry_ok(e.tag, e.perm, new_id)
             THEN [exc |-> "struct.error", val |-> <<>>]
             ELSE acl_loop(blob, offset, i + 1, num_entries,
                           new_blob \o pack_entry(e.tag, e.perm, new_id))

\* The three early returns of the codec.
acl_passthrough_noLengthCheck(blob) ==
    \/ Len(blob) < ACL_HEADER_SIZE
    \/ unpack_le(SubSeq(blob, 1, ACL_HEADER_SIZE)) # ACL_EA_VERSION

acl_passthrough(blob) ==
    \/ Len(blob) < ACL_HEADER_SIZE
    \/ unpack_le(SubSeq(blob, 1, ACL_HEADER_SIZE)) # ACL_EA_VERSION
    \/ (Len(blob) - ACL_HEADER_SIZE) % ACL_ENTRY_SIZE # 0

\* The body of the try block.
acl_try(blob, offset) ==
    IF acl_passthrough(blob)
    THEN [exc |-> "none", val |-> blob]
    ELSE acl_loop(blob, offset, 0, (Len(blob) - ACL_HEADER_SIZE) \div ACL_ENTRY_SIZE,
                  SubSeq(blob, 1, ACL_HEADER_SIZE))

\* The whole function: what it returns (val), or the exception that leaves it.
modify_acl_blob(blob, offset) ==
    LET r == acl_try(blob, offset)
    IN  IF r.exc = "struct.error" THEN [exc |-> "none", val |-> blob] ELSE r


\* ------------------------------------------------------------ the file tree
\* The tree the walk runs over: root/{a, sub/{b, fl -> b}, link -> sub}.
Entries == {"root", "a", "sub", "b", "fl", "link"}

target_dir == "root"

Kind ==
    [e \in Entries |->
        CASE e \in {"root", "sub"} -> "dir"
          [] e \in {"a", "b"}      -> "file"
          [] OTHER                 -> "symlink"]

Parent == [e \in Entries |-> IF e \in {"b", "fl"} THEN "sub" ELSE "root"]

LinkTarget == [e \in {"fl", "link"} |-> IF e = "fl" THEN "b" ELSE "sub"]

\* The order in which a directory lists its names, and its reverse.
ScanOrder == <<"a", "b", "fl", "link", "sub">>

RECURSIVE Reverse(_)
Reverse(s) == IF s = <<>> THEN <<>> ELSE Append(Reverse(Tail(s)), Head(s))

\* The path a following operation acts on.
Resolve(e) == IF Kind[e] = "symlink" THEN LinkTarget[e] ELSE e

\* os.scandir(top): the names of top's children, in directory order.
scandir(top, rev) ==
    LET IsChild(e) == Parent[e] = top /\ e # target_dir
    IN  SelectSeq(IF rev THEN Reverse(ScanOrder) ELSE ScanOrder, IsChild)

\* DirEntry.is_dir(), which follows symlinks, and os.path.islink.
is_dir(e) == Kind[Resolve(e)] = "dir"

islink(e) == Kind[e] = "symlink"

\* os.walk(top, topdown=False): the (root, dirs, files) triples, each directory
\* after the directories below it; a symlink to a directory is listed in dirs
\* and not walked into.
RECURSIVE os_walk(_, _)
RECURSIVE walk_subdirs(_, _)
walk_subdirs(dirs, rev) ==
    IF dirs = <<>> THEN <<>>
    ELSE (IF islink(Head(dirs)) THEN <<>> ELSE os_walk(Head(dirs), rev))
         \o walk_subdirs(Tail(dirs), rev)

os_walk(top, rev) ==
    LET ents    == scandir(top, rev)
        IsDir(e) == is_dir(e)
        NonDir(e) == ~is_dir(e)
        dirs    == SelectSeq(ents, IsDir)
        nondirs == SelectSeq(ents, NonDir)
    IN  walk_subdirs(dirs, rev) \o <<[root |-> top, dirs |-> dirs, files |-> nondirs]>>

\* The body of main's loop for one triple: the paths it hands to shift_file.
loop_body_rootFirst(t) ==
    LET IsLink(d) == islink(d)
    IN  <<t.root>> \o t.files \o SelectSeq(t.dirs, IsLink)

loop_body(t) ==
    LET IsLink(d) == islink(d)
    IN  t.files \o SelectSeq(t.dirs, IsLink) \o <<t.root>>

RECURSIVE Flatten(_)
Flatten(ts) == IF ts = <<>> THEN <<>> ELSE loop_body(Head(ts)) \o Flatten(Tail(ts))

\* Every shift_file call of one run of main, in order.
MainCalls(rev) == Flatten(os_walk(target_dir, rev))


\* ------------------------------------------------------------------ state
VARIABLES
    offset,     \* main: the offset of the command line
    listRev,    \* environment: whether directories list their names in reverse
    clears,     \* environment: whether a chown drops setuid/setgid and capabilities
    failing,    \* environment: the <<path, call, attribute>> that fail with OSError
    fs,         \* the file system: path -> [uid, gid, mode, xattrs]
    fsRun,      \* history: fs as it was when the current run started
    fs0,        \* history: fs as it was when the first run started
    run,        \* which run of the tool this is
    mainpc,     \* main: "walk", "done" (Shift complete.), "crashed" (a traceback)
    wi,         \* main: the index in MainCalls of the next shift_file call
    pc,         \* shift_file: the call it is about to make, or "idle"
    loc,        \* shift_file: its local variables
    calls,      \* history: path -> the calls shift_file made on it in this run
    outcome,    \* history: path -> how shift_file left it in this run
    visits,     \* history: the paths handed to shift_file in this run, in order
    stderr,     \* what the run printed to standard error
    prevSet,    \* history: the paths whose owner the previous run set to its target
    arg,        \* codec harness: the arguments of the call
    res         \* codec harness: the result of the call

walkVars == <<offset, listRev, clears, failing, fs, fsRun, fs0, run, mainpc, wi, pc, loc,
              calls, outcome, visits, stderr, prevSet>>

codecVars == <<arg, res>>

vars == <<walkVars, codecVars>>

\* ------------------------------------------------------------ stat helpers
S_IFDIR == 4 * 4096
S_IFREG == 8 * 4096
S_IFLNK == 10 * 4096

\* stat.S_IMODE, stat.S_IFMT, stat.S_ISLNK.
S_IMODE(mode) == mode % 4096

S_IFMT(mode) == mode - (mode % 4096)

S_ISLNK(mode) == S_IFMT(mode) = S_IFLNK

Oct(a, b, c, d) == ((a * 8 + b) * 8 + c) * 8 + d

HasBit(mode, bit) == (mode \div bit) % 2 = 1

\* ------------------------------------------------------ extended attributes
AclAccess == "system.posix_acl_access"
AclDefault == "system.posix_acl_default"
Capability == "security.capability"

acl_xattrs == {AclAccess, AclDefault}

XattrNames == {AclAccess, AclDefault, Capability}

\* The order in which listxattr names the attributes.
XattrOrder == <<Capability, AclAccess, AclDefault>>

\* The value of an attribute the entry does not carry.
NoAttr == <<-1>>

\* os.listxattr(path, follow_symlinks=False).
listxattr(x) ==
    LET Present(n) == x[n] # NoAttr
    IN  SelectSeq(XattrOrder, Present)


\* ------------------------------------------------------------- the kernel
\* Whether a call on a path fails with OSError in this environment.
Fails(path, op, name) == <<path, op, name>> \in failing

\* An id os.lchown cannot convert to uid_t / gid_t: it raises OverflowError,
\* which is no OSError.
id_overflows(v) == v > IdMax \/ v < -1

\* An id lchown(2) reads as "leave unchanged": -1, which is IdMax as uid_t.
id_keeps(v) == v = -1 \/ v = IdMax

\* The mode a chown leaves on a file that is no directory.
kill_suid_sgid(mode) ==
    mode - (IF HasBit(mode, 2048) THEN 2048 ELSE 0)
         - (IF HasBit(mode, 1024) /\ HasBit(mode, 8) THEN 1024 ELSE 0)

\* lchown(2) on an entry: the owner is set, and on a file that is no directory
\* the setuid/setgid bits and the capabilities are dropped.
chown_effect(m, new_uid, new_gid, kills) ==
    [uid    |-> IF id_keeps(new_uid) THEN m.uid ELSE new_uid,
     gid    |-> IF id_keeps(new_gid) THEN m.gid ELSE new_gid,
     mode   |-> IF kills THEN kill_suid_sgid(m.mode) ELSE m.mode,
     xattrs |-> IF kills THEN [m.xattrs EXCEPT ![Capability] = NoAttr] ELSE m.xattrs]

\* chmod(2): the permission bits are replaced, the type bits kept.
chmod_effect(m, bits) == [m EXCEPT !.mode = S_IFMT(m.mode) + bits]

\* --------------------------------------------------------- initial values
Header == pack_le(ACL_EA_VERSION, 4)

\* USER_OBJ (undefined id), USER 1, GROUP 5.
AclOfA == Header \o pack_entry(1, 7, IdMax) \o pack_entry(2, 6, 1) \o pack_entry(8, 5, 5)

\* USER 0, GROUP 3, OTHER (undefined id).
AclOfSub == Header \o pack_entry(2, 7, 0) \o pack_entry(8, 5, 3) \o pack_entry(32, 4, IdMax)

\* A blob of another version.
AclOfRoot == pack_le(3, 4) \o pack_entry(2, 7, 1)

CapOfA == <<1, 0, 0, 2, 1>>

NoXattrs == [n \in XattrNames |-> NoAttr]

XattrsOf(e) ==
    CASE e = "a"    -> [NoXattrs EXCEPT ![AclAccess] = AclOfA, ![Capability] = CapOfA]
      [] e = "sub"  -> [NoXattrs EXCEPT ![AclDefault] = AclOfSub]
      [] e = "root" -> [NoXattrs EXCEPT ![AclDefault] = AclOfRoot]
      [] e = "fl"   -> [NoXattrs EXCEPT ![Capability] = CapOfA]
      [] OTHER      -> NoXattrs

ModeOf(e) ==
    CASE e = "a"    -> S_IFREG + Oct(6, 7, 5, 5)
      [] e = "b"    -> S_IFREG + Oct(0, 6, 4, 4)
      [] e = "sub"  -> S_IFDIR + Oct(2, 7, 7, 5)
      [] e = "root" -> S_IFDIR + Oct(1, 7, 7, 7)
      [] OTHER      -> S_IFLNK + Oct(0, 7, 7, 7)

Offsets == {2, -2, IdMax}

Owners == {<<1, 1>>, <<5, 5>>, <<1, 3>>, <<0, 0>>}

\* The calls that fail, for one run of the model: none, or the calls of one entry.
FailSets ==
    {{}}
    \cup {{<<e, op, "">>} : e \in Entries, op \in {"lstat", "lchown"}}
    \cup {{<<e, op, "">>} : e \in {"a", "sub"}, op \in {"listxattr", "chmod"}}
    \cup {{<<"a", op, n>>} : op \in {"getxattr", "setxattr"}, n \in {AclAccess, Capability}}
    \cup {{<<"a", "chmod", "">>, <<"a", "setxattr", Capability>>}}

NoLocals ==
    [path |-> "", old_uid |-> 0, old_gid |-> 0, old_mode |-> 0, is_symlink |-> FALSE,
     new_uid |-> 0, new_gid |-> 0, names |-> <<>>, backup |-> <<>>]

NoArg == [fn |-> "", id |-> 0, offset |-> 1, blob |-> <<>>]

NoRes == [done |-> FALSE, id |-> 0, exc |-> "none", blob |-> <<>>]

InitFs(fileOwner, otherOwner) ==
    [e \in Entries |->
        LET o == IF Kind[e] = "file" THEN fileOwner ELSE otherOwner
        IN  [uid |-> o[1], gid |-> o[2], mode |-> ModeOf(e), xattrs |-> XattrsOf(e)]]

StartOfRun ==
    /\ mainpc = "walk"
    /\ wi = 1
    /\ pc = "idle"
    /\ loc = NoLocals
    /\ calls = [e \in Entries |-> <<>>]
    /\ outcome = [e \in Entries |-> "pending"]
    /\ visits = <<>>
    /\ stderr = <<>>

\* main has checked its arguments (the offset is an integer that is not zero,
\* the target is a directory) and is about to walk.
Init ==
    /\ offset \in Offsets
    /\ listRev \in BOOLEAN
    /\ clears \in BOOLEAN
    /\ failing \in FailSets
    /\ \E f \in Owners, o \in Owners : fs = InitFs(f, o)
    /\ fsRun = fs
    /\ fs0 = fs
    /\ run = 1
    /\ StartOfRun
    /\ prevSet = {}
    /\ arg = NoArg
    /\ res = NoRes


\* -------------------------------------------------------------- shift_file
Call(op, name) == [op |-> op, name |-> name, uid |-> 0, gid |-> 0]

Logged(path, c) == calls' = [calls EXCEPT ![path] = Append(@, c)]

Report(kind, path, name) ==
    stderr' = Append(stderr, [kind |-> kind, path |-> path, name |-> name])

\* shift_file goes on to its next call, or returns to main's loop.
Goto(next, path, how, newloc) ==
    IF next = "return"
    THEN /\ pc' = "idle"
         /\ wi' = wi + 1
         /\ loc' = NoLocals
         /\ outcome' = [outcome EXCEPT ![path] = how]
    ELSE /\ pc' = next
         /\ wi' = wi
         /\ loc' = newloc
         /\ outcome' = [outcome EXCEPT ![path] = "running"]

\* "If no ownership change, skip".
no_ownership_change_never(old_uid, old_gid, new_uid, new_gid) == FALSE

no_ownership_change(old_uid, old_gid, new_uid, new_gid) ==
    new_uid = old_uid /\ new_gid = old_gid

\* What follows the ownership change, and what follows the mode restore.
after_chmod_skipRestore(l) == "return"

after_chmod(l) == IF l.backup # <<>> THEN "setxattr" ELSE "return"

after_lchown_chmodLinks(l) == "chmod"

after_lchown_rereads(l) == "listxattr"

after_lchown(l) == IF ~l.is_symlink THEN "chmod" ELSE after_chmod(l)

\* An OSError of os.lchown leaves the try block: shift_file reports and returns.
on_lchown_error_goesOn(l) == after_lchown(l)

on_lchown_error(l) == "return"

\* An OSError of os.chmod is caught on the spot: the attributes are restored next.
on_chmod_error_givesUp(l) == "return"

on_chmod_error(l) == after_chmod(l)

\* The value kept for an attribute that was read.
backup_value_verbatim(name, value) == [exc |-> "none", val |-> value]

backup_value(name, value) ==
    IF name \in acl_xattrs
    THEN modify_acl_blob(value, offset)
    ELSE [exc |-> "none", val |-> value]

\* main calls shift_file on the next path; shift_file lstats it, computes the
\* new owner and returns at once if nothing changes.
Lstat ==
    /\ mainpc = "walk"
    /\ pc = "idle"
    /\ wi <= Len(MainCalls(listRev))
    /\ LET path == MainCalls(listRev)[wi]
       IN  /\ visits' = Append(visits, path)
           /\ Logged(path, Call("lstat", ""))
           /\ IF Fails(path, "lstat", "")
              THEN /\ Report("Error", path, "")
                   /\ Goto("return", path, "lstat_failed", NoLocals)
              ELSE LET stat_info == fs[path]
                       old_uid   == stat_info.uid
                       old_gid   == stat_info.gid
                       old_mode  == stat_info.mode
                       new_uid   == shift_id(old_uid, offset)
                       new_gid   == shift_id(old_gid, offset)
                   IN  /\ stderr' = stderr
                       /\ IF no_ownership_change(old_uid, old_gid, new_uid, new_gid)
                          THEN Goto("return", path, "unchanged", NoLocals)
                          ELSE Goto("listxattr", path, "",
                                    [path |-> path, old_uid |-> old_uid,
                                     old_gid |-> old_gid, old_mode |-> old_mode,
                                     is_symlink |-> S_ISLNK(old_mode),
                                     new_uid |-> new_uid, new_gid |-> new_gid,
                                     names |-> <<>>, backup |-> <<>>])
    /\ UNCHANGED <<offset, listRev, clears, failing, fs0, fs, fsRun, run, mainpc, prevSet,
                   codecVars>>

\* Step 2: the names of the attributes; none when the listing fails.
ListXattr ==
    /\ pc = "listxattr"
    /\ LET path  == loc.path
           names == IF Fails(path, "listxattr", "") THEN <<>>
                    ELSE listxattr(fs[path].xattrs)
       IN  /\ Logged(path, Call("listxattr", ""))
           /\ Goto(IF names = <<>> THEN "lchown" ELSE "getxattr", path, "",
                   [loc EXCEPT !.names = names])
    /\ UNCHANGED <<offset, listRev, clears, failing, fs0, fs, fsRun, run, mainpc, visits,
                   stderr, prevSet, codecVars>>

\* Step 2, once per name: the value is read and kept; a read that fails is passed
\* over, and nothing is printed.
GetXattr ==
    /\ pc = "getxattr"
    /\ LET path == loc.path
           name == Head(loc.names)
           rest == Tail(loc.names)
           kept == backup_value(name, fs[path].xattrs[name])
           next == IF rest = <<>> THEN "lchown" ELSE "getxattr"
       IN  /\ Logged(path, Call("getxattr", name))
           /\ IF Fails(path, "getxattr", name)
              THEN /\ Goto(next, path, "", [loc EXCEPT !.names = rest])
                   /\ mainpc' = mainpc
              ELSE IF kept.exc # "none"
              THEN /\ Goto("return", path, "raised", NoLocals)
                   /\ mainpc' = "crashed"
              ELSE /\ Goto(next, path, "",
                           [loc EXCEPT !.names = rest,
                                       !.backup = Append(@, [name |-> name,
                                                             value |-> kept.val])])
                   /\ mainpc' = mainpc
    /\ UNCHANGED <<offset, listRev, clears, failing, fs0, fs, fsRun, run, visits, stderr,
                   prevSet, codecVars>>

\* Step 3: os.lchown(path, new_uid, new_gid).  An id outside uid_t raises
\* OverflowError, which the handler of shift_file does not catch: main ends with
\* a traceback.  An OSError is reported and the entry is left.
Lchown ==
    /\ pc = "lchown"
    /\ LET path == loc.path
       IN  /\ Logged(path, [op |-> "lchown", name |-> "",
                            uid |-> loc.new_uid, gid |-> loc.new_gid])
           /\ IF id_overflows(loc.new_uid) \/ id_overflows(loc.new_gid)
              THEN /\ Goto("return", path, "raised", NoLocals)
                   /\ mainpc' = "crashed"
                   /\ UNCHANGED <<fs, stderr>>
              ELSE IF Fails(path, "lchown", "")
              THEN /\ Report("Error", path, "")
                   /\ Goto(on_lchown_error(loc), path, "lchown_failed", loc)
                   /\ UNCHANGED <<fs, mainpc>>
              ELSE /\ fs' = [fs EXCEPT ![path] =
                                chown_effect(@, loc.new_uid, loc.new_gid,
                                             clears /\ Kind[path] # "dir")]
                   /\ Goto(after_lchown(loc), path, "shifted", loc)
                   /\ UNCHANGED <<stderr, mainpc>>
    /\ UNCHANGED <<offset, listRev, clears, failing, fs0, fsRun, run, visits, prevSet,
                   codecVars>>

\* Step 4a: os.chmod(path, stat.S_IMODE(old_mode)), which follows symlinks; a
\* failure is a warning.
Chmod ==
    /\ pc = "chmod"
    /\ LET path == loc.path
       IN  /\ Logged(path, Call("chmod", ""))
           /\ IF Fails(path, "chmod", "")
              THEN /\ Report("Warning: mode", path, "")
                   /\ fs' = fs
                   /\ Goto(on_chmod_error(loc), path, "shifted", loc)
              ELSE /\ fs' = [fs EXCEPT ![Resolve(path)] =
                                chmod_effect(@, S_IMODE(loc.old_mode))]
                   /\ stderr' = stderr
                   /\ Goto(after_chmod(loc), path, "shifted", loc)
    /\ UNCHANGED <<offset, listRev, clears, failing, fs0, fsRun, run, mainpc, visits,
                   prevSet, codecVars>>

\* Step 4b, once per attribute kept: os.setxattr(path, name, value); a failure
\* is a warning.
SetXattr ==
    /\ pc = "setxattr"
    /\ LET path == loc.path
           item == Head(loc.backup)
           rest == Tail(loc.backup)
       IN  /\ Logged(path, Call("setxattr", item.name))
           /\ IF Fails(path, "setxattr", item.name)
              THEN /\ Report("Warning: xattr", path, item.name)
                   /\ fs' = fs
              ELSE /\ fs' = [fs EXCEPT ![path].xattrs[item.name] = item.value]
                   /\ stderr' = stderr
           /\ Goto(IF rest = <<>> THEN "return" ELSE "setxattr", path, "shifted",
                   [loc EXCEPT !.backup = rest])
    /\ UNCHANGED <<offset, listRev, clears, failing, fs0, fsRun, run, mainpc, visits,
                   prevSet, codecVars>>

\* ------------------------------------------------------------------- main
\* The loop is over: "Shift complete."
Complete ==
    /\ mainpc = "walk"
    /\ pc = "idle"
    /\ wi > Len(MainCalls(listRev))
    /\ mainpc' = "done"
    /\ UNCHANGED <<offset, listRev, clears, failing, fs0, fs, fsRun, run, wi, pc, loc,
                   calls, outcome, visits, stderr, prevSet, codecVars>>

\* The paths whose owner this run set to the shifted owner.
SetToTarget ==
    {e \in Entries :
        /\ outcome[e] = "shifted"
        /\ fs[e].uid = shift_id(fsRun[e].uid, offset)
        /\ fs[e].gid = shift_id(fsRun[e].gid, offset)}

\* A further run of the tool on the same tree with the same offset starts.
NewRun ==
    /\ run' = run + 1
    /\ fsRun' = fs
    /\ prevSet' = SetToTarget
    /\ mainpc' = "walk"
    /\ wi' = 1
    /\ pc' = "idle"
    /\ loc' = NoLocals
    /\ calls' = [e \in Entries |-> <<>>]
    /\ outcome' = [e \in Entries |-> "pending"]
    /\ visits' = <<>>
    /\ stderr' = <<>>
    /\ UNCHANGED <<offset, listRev, clears, failing, fs0, fs, codecVars>>

\* The tool is run again on the same tree with the same offset.
Restart ==
    /\ mainpc \in {"done", "crashed"}
    /\ run < MaxRuns
    /\ NewRun

Next ==
    \/ Lstat
    \/ ListXattr
    \/ GetXattr
    \/ Lchown
    \/ Chmod
    \/ SetXattr
    \/ Complete
    \/ Restart

Spec == Init /\ [][Next]_vars

\* ------------------------------------------------------- interrupted runs
\* The process is stopped between two file-system calls of its first run: what
\* the calls made so far have done to the tree stays, nothing else is done.
Interrupt ==
    /\ mainpc = "walk"
    /\ run = 1
    /\ mainpc' = "interrupted"
    /\ pc' = "idle"
    /\ loc' = NoLocals
    /\ UNCHANGED <<offset, listRev, clears, failing, fs0, fs, fsRun, run, wi, calls,
                   outcome, visits, stderr, prevSet, codecVars>>

\* After the interruption the tool is run again on the same tree with the same
\* offset.
Resume ==
    /\ mainpc = "interrupted"
    /\ NewRun

\* Offsets with which no shifted id of the tree leaves the id field, and no
\* call fails: every run that is not interrupted reaches "Shift complete.".
RerunOffsets == {2, -2}

InitRerun ==
    /\ offset \in RerunOffsets
    /\ listRev \in BOOLEAN
    /\ clears \in BOOLEAN
    /\ failing = {}
    /\ \E f \in Owners, o \in Owners : fs = InitFs(f, o)
    /\ fsRun = fs
    /\ fs0 = fs
    /\ run = 1
    /\ StartOfRun
    /\ prevSet = {}
    /\ arg = NoArg
    /\ res = NoRes

NextRerun ==
    \/ Lstat
    \/ ListXattr
    \/ GetXattr
    \/ Lchown
    \/ Chmod
    \/ SetXattr
    \/ Complete
    \/ Interrupt
    \/ Resume

SpecRerun == InitRerun /\ [][NextRerun]_vars


\* ------------------------------------------------------- the codec harness
\* shift_id and modify_acl_blob called on their own, on arguments drawn from
\* the ids, offsets and byte strings below.
TestIds == (0..4) \cup {IdMax - 1, IdMax}

TestOffsets == {-IdMax, -3, -2, -1, 1, 2, 3, IdMax, IdMax + 1}

TestTags == {1, ACL_TAG_USER, ACL_TAG_GROUP}

TestPerms == {5}

BlobIds == {0, 1, 5, IdMax}

\* The well-formed blobs of n entries.
RECURSIVE BlobsOf(_)
BlobsOf(n) ==
    IF n = 0 THEN {Header}
    ELSE {b \o pack_entry(t, p, i) :
            b \in BlobsOf(n - 1), t \in TestTags, p \in TestPerms, i \in BlobIds}

WellFormedBlobs == UNION {BlobsOf(n) : n \in 0..MaxEntries}

\* Their prefixes (too short, or cut inside an entry), and the same blobs with
\* another version in the header.
Prefixes == UNION {{SubSeq(b, 1, k) : k \in 0..(Len(b) - 1)} : b \in WellFormedBlobs}

OtherVersions ==
    {[b EXCEPT ![1] = 3] : b \in WellFormedBlobs}
    \cup {[b EXCEPT ![ACL_HEADER_SIZE] = 1] : b \in WellFormedBlobs}

TestBlobs == WellFormedBlobs \cup Prefixes \cup OtherVersions

WalkOff ==
    /\ offset = 1
    /\ listRev = FALSE
    /\ clears = FALSE
    /\ failing = {}
    /\ fs = InitFs(<<0, 0>>, <<0, 0>>)
    /\ fsRun = fs
    /\ fs0 = fs
    /\ run = 1
    /\ mainpc = "off"
    /\ wi = 1
    /\ pc = "off"
    /\ loc = NoLocals
    /\ calls = [e \in Entries |-> <<>>]
    /\ outcome = [e \in Entries |-> "pending"]
    /\ visits = <<>>
    /\ stderr = <<>>
    /\ prevSet = {}

InitCodec ==
    /\ WalkOff
    /\ res = NoRes
    /\ \/ \E i \in TestIds, o \in TestOffsets :
            arg = [fn |-> "shift_id", id |-> i, offset |-> o, blob |-> <<>>]
       \/ \E b \in TestBlobs, o \in TestOffsets :
            arg = [fn |-> "modify_acl_blob", id |-> 0, offset |-> o, blob |-> b]

CallShiftId ==
    /\ arg.fn = "shift_id"
    /\ ~res.done
    /\ res' = [done |-> TRUE, id |-> shift_id(arg.id, arg.offset), exc |-> "none",
               blob |-> <<>>]
    /\ UNCHANGED <<arg, walkVars>>

CallModifyAclBlob ==
    /\ arg.fn = "modify_acl_blob"
    /\ ~res.done
    /\ LET r == modify_acl_blob(arg.blob, arg.offset)
       IN  res' = [done |-> TRUE, id |-> 0, exc |-> r.exc, blob |-> r.val]
    /\ UNCHANGED <<arg, walkVars>>

NextCodec == CallShiftId \/ CallModifyAclBlob

SpecCodec == InitCodec /\ [][NextCodec]_vars

\* ------------------------------------------------- what the claims speak of
\* A blob as the claims describe it, read without the codec: its header bytes
\* and its entries.
WellFormed(blob) ==
    /\ Len(blob) >= 4
    /\ SubSeq(blob, 1, 4) = <<2, 0, 0, 0>>
    /\ (Len(blob) - 4) % 8 = 0

NumEntries(blob) == (Len(blob) - 4) \div 8

EntryAt(blob, k) == unpack_entry(blob, 4 + 8 * (k - 1))

Qualifies(e) == e.tag \in {2, 8}

\* out is blob with the id of every USER and GROUP entry shifted, and nothing
\* else changed.
ShiftedCopy(blob, out, o) ==
    /\ Len(out) = Len(blob)
    /\ SubSeq(out, 1, 4) = SubSeq(blob, 1, 4)
    /\ \A k \in 1..NumEntries(blob) :
         LET e == EntryAt(blob, k)
         IN  /\ SubSeq(out, 8 * k - 3, 8 * k) = SubSeq(blob, 8 * k - 3, 8 * k)
             /\ EntryAt(out, k).id = IF Qualifies(e) THEN shift_id(e.id, o) ELSE e.id

\* Every shifted id of the blob fits the id field.
AllFit(blob, o) ==
    \A k \in 1..NumEntries(blob) :
        LET e == EntryAt(blob, k)
        IN  Qualifies(e) => shift_id(e.id, o) <= IdMax

ShiftIdDone == res.done /\ arg.fn = "shift_id"

CodecDone == res.done /\ arg.fn = "modify_acl_blob"

\* C1: for a non-negative id i and an offset o that is not zero, shift_id(i, o)
\* is i + o when o > 0 and i < |o|, or when o < 0 and i >= |o|; in every other
\* case it is i.
C1_BoundaryLaw ==
    ShiftIdDone =>
        LET i == arg.id
            o == arg.offset
            applies == IF o > 0 THEN i < Abs(o) ELSE i >= Abs(o)
        IN  /\ applies => res.id = i + o
            /\ ~applies => res.id = i

C1_Witness ==
    /\ ShiftIdDone
    /\ arg.offset < 0
    /\ arg.id >= Abs(arg.offset)
    /\ res.id = arg.id + arg.offset
    /\ res.id # arg.id

\* C2 as stated: of every well-formed blob, modify_acl_blob returns the copy
\* with the same header and entries, each USER or GROUP id replaced by
\* shift_id(id, offset) and every other id kept.
C2_AsStated ==
    (CodecDone /\ WellFormed(arg.blob)) => ShiftedCopy(arg.blob, res.blob, arg.offset)

\* C2 as amended: the same, for the blobs whose shifted ids all fit the id
\* field; a blob with a shifted id that does not fit is returned unchanged.
C2_ShiftedWhenFits ==
    (CodecDone /\ WellFormed(arg.blob)) =>
        /\ res.exc = "none"
        /\ AllFit(arg.blob, arg.offset) => ShiftedCopy(arg.blob, res.blob, arg.offset)
        /\ ~AllFit(arg.blob, arg.offset) => res.blob = arg.blob

C2_Witness ==
    /\ CodecDone
    /\ WellFormed(arg.blob)
    /\ NumEntries(arg.blob) = 2
    /\ EntryAt(arg.blob, 1).tag = 2
    /\ EntryAt(arg.blob, 2).tag = 1
    /\ AllFit(arg.blob, arg.offset)
    /\ EntryAt(res.blob, 1).id = EntryAt(arg.blob, 1).id + arg.offset
    /\ EntryAt(res.blob, 2).id = EntryAt(arg.blob, 2).id
    /\ EntryAt(arg.blob, 2).id < arg.offset

\* C3: a byte string shorter than 4 bytes, or whose first 4 bytes are not
\* version 2, or whose body is no multiple of 8 bytes, is returned unchanged,
\* and no exception leaves modify_acl_blob.
Anomalous(blob) == ~WellFormed(blob)

C3_PassThrough ==
    (CodecDone /\ Anomalous(arg.blob)) => (res.exc = "none" /\ res.blob = arg.blob)

C3_Witness ==
    /\ CodecDone
    /\ Len(arg.blob) > 4 + 8
    /\ SubSeq(arg.blob, 1, 4) = <<2, 0, 0, 0>>
    /\ (Len(arg.blob) - 4) % 8 # 0
    /\ EntryAt(arg.blob, 1).tag = 2
    /\ EntryAt(arg.blob, 1).id < arg.offset
    /\ res.blob = arg.blob


\* --------------------------------------------------- the walk's claims
Over(e) == outcome[e] \notin {"pending", "running"}

NoFailureOn(e) == \A f \in failing : f[1] # e

OpsOf(e) == {calls[e][k].op : k \in 1..Len(calls[e])}

\* C4 as stated: a non-symlink entry whose owner or group the shift changes,
\* whose ownership change cleared setuid/setgid and whose mode restore
\* succeeded, ends the protocol with the permission bits it started with and
\* with the shifted owner and group.
C4_AsStated ==
    \A e \in Entries :
        (/\ outcome[e] = "shifted"
         /\ Kind[e] # "symlink"
         /\ clears
         /\ kill_suid_sgid(fsRun[e].mode) # fsRun[e].mode
         /\ ~Fails(e, "chmod", ""))
        => /\ S_IMODE(fs[e].mode) = S_IMODE(fsRun[e].mode)
           /\ fs[e].uid = shift_id(fsRun[e].uid, offset)
           /\ fs[e].gid = shift_id(fsRun[e].gid, offset)

\* What remains of C4: the permission bits are restored, and the owner is the
\* shifted one unless the shifted id is the one lchown reads as "unchanged".
C4_ModeRestored ==
    \A e \in Entries :
        (outcome[e] = "shifted" /\ Kind[e] # "symlink" /\ ~Fails(e, "chmod", ""))
        => /\ S_IMODE(fs[e].mode) = S_IMODE(fsRun[e].mode)
           /\ LET u == shift_id(fsRun[e].uid, offset)
                   g == shift_id(fsRun[e].gid, offset)
               IN  /\ fs[e].uid = IF id_keeps(u) THEN fsRun[e].uid ELSE u
                   /\ fs[e].gid = IF id_keeps(g) THEN fsRun[e].gid ELSE g

\* An ACL attribute as the claim wants it after the protocol.
Retargeted(blob, out) ==
    IF WellFormed(blob) THEN ShiftedCopy(blob, out, offset) ELSE out = blob

AclsOf(e) == {n \in acl_xattrs : fsRun[e].xattrs[n] # NoAttr}

\* C5 as stated: on every entry the protocol has run on with no failing call,
\* whatever its owner, each ACL attribute has its USER and GROUP ids shifted
\* and its other bytes unchanged.
C5_AsStated ==
    \A e \in Entries :
        (outcome[e] \in {"unchanged", "shifted"} /\ NoFailureOn(e))
        => \A n \in AclsOf(e) : Retargeted(fsRun[e].xattrs[n], fs[e].xattrs[n])

\* C5 as amended: on every entry whose uid or gid the shift changes and whose
\* protocol has run to its end with no failing call, each well-formed ACL
\* attribute whose shifted ids all fit the id field has its USER and GROUP ids
\* shifted and its other bytes unchanged; any other ACL attribute is unchanged.
C5_RetargetedWhenShifted ==
    \A e \in Entries :
        (outcome[e] = "shifted" /\ NoFailureOn(e))
        => \A n \in AclsOf(e) :
             LET blob == fsRun[e].xattrs[n]
                 out  == fs[e].xattrs[n]
             IN  IF WellFormed(blob) /\ AllFit(blob, offset)
                 THEN ShiftedCopy(blob, out, offset)
                 ELSE out = blob

C5_Witness ==
    /\ outcome["a"] = "shifted"
    /\ NoFailureOn("a")
    /\ offset = 2
    /\ EntryAt(fsRun["a"].xattrs[AclAccess], 2).id = 1
    /\ EntryAt(fs["a"].xattrs[AclAccess], 2).id = 3
    /\ EntryAt(fs["a"].xattrs[AclAccess], 3).id = 5

\* C6: an entry is handed to shift_file before the directory that contains it,
\* at any depth, and nothing is handed to it after the target directory.
RECURSIVE Under(_, _)
Under(e, d) == IF e = target_dir THEN FALSE ELSE Parent[e] = d \/ Under(Parent[e], d)

C6_BottomUp ==
    \A j \in 1..Len(visits) :
        /\ \A e \in Entries :
             Under(e, visits[j]) => \E i \in 1..(j - 1) : visits[i] = e
        /\ visits[j] = target_dir => j = Len(visits)

C6_Witness ==
    /\ mainpc = "done"
    /\ Len(visits) = Cardinality(Entries)
    /\ visits[Len(visits)] = target_dir
    /\ \E i, j \in 1..Len(visits) : i < j /\ visits[i] = "b" /\ visits[j] = "sub"

\* C7 as stated: no entry is handed to shift_file twice, and when the run is
\* over every entry of the tree has been handed to it once.
TimesVisited(e) == Cardinality({i \in 1..Len(visits) : visits[i] = e})

C7_AsStated ==
    /\ \A e \in Entries : TimesVisited(e) <= 1
    /\ mainpc \in {"done", "crashed"} => \A e \in Entries : TimesVisited(e) = 1

\* What remains of C7 in the runs that reach their completion marker.
C7_OnceWhenComplete == mainpc = "done" => \A e \in Entries : TimesVisited(e) = 1

C8_WitnessDown ==
    /\ run = 2
    /\ offset < 0
    /\ \E e \in prevSet : outcome[e] = "unchanged"

\* C9: an entry whose uid and gid shift_id both leaves unchanged gets the lstat
\* and no other call, and its owner, group, mode and attributes stay as they
\* were.
KeptByShift(e) ==
    /\ shift_id(fsRun[e].uid, offset) = fsRun[e].uid
    /\ shift_id(fsRun[e].gid, offset) = fsRun[e].gid

C9_EarlyExit ==
    \A e \in Entries :
        KeptByShift(e) => (OpsOf(e) \subseteq {"lstat"} /\ fs[e] = fsRun[e])

C9_Witness ==
    /\ mainpc = "done"
    /\ KeptByShift("a")
    /\ outcome["a"] = "unchanged"
    /\ outcome["sub"] = "shifted"
    /\ calls["a"] = <<Call("lstat", "")>>

\* C10 as stated: a failed lstat or lchown is reported and leaves only its
\* entry, and no error that arises in shift_file ends the walk: main goes on
\* to the next entry and to its completion marker.
Reported(e) == \E k \in 1..Len(stderr) : stderr[k].kind = "Error" /\ stderr[k].path = e

C10_AsStated ==
    /\ mainpc \in {"walk", "done"}
    /\ \A e \in Entries : outcome[e] \in {"lstat_failed", "lchown_failed"} => Reported(e)


\* What remains of C10: an OSError of lstat or lchown is reported and leaves
\* its entry as it was, and only an exception that is no OSError ends the walk.
C10_OSErrorIsolated ==
    /\ \A e \in Entries :
         outcome[e] \in {"lstat_failed", "lchown_failed"}
         => (Reported(e) /\ fs[e] = fsRun[e])
    /\ mainpc = "crashed" => \E e \in Entries : outcome[e] = "raised"

\* What shift_file makes of the entry e whose metadata is m when every call
\* succeeds: the protocol of one uninterrupted run.
ProtocolResult(m, e) ==
    LET new_uid == shift_id(m.uid, offset)
        new_gid == shift_id(m.gid, offset)
        chowned == chown_effect(m, new_uid, new_gid, clears /\ Kind[e] # "dir")
        moded   == IF S_ISLNK(m.mode) THEN chowned
                   ELSE chmod_effect(chowned, S_IMODE(m.mode))
    IN  IF no_ownership_change(m.uid, m.gid, new_uid, new_gid)
        THEN m
        ELSE [moded EXCEPT !.xattrs =
                 [n \in XattrNames |->
                     IF m.xattrs[n] = NoAttr THEN moded.xattrs[n]
                     ELSE backup_value(n, m.xattrs[n]).val]]

\* One uninterrupted run leaves every entry as ProtocolResult says.
OneRunResult ==
    (run = 1 /\ mainpc = "done")
    => \A e \in Entries : fs[e] = ProtocolResult(fs0[e], e)

\* C11 as stated: when the first run is interrupted between two file-system
\* calls and the tool is run again to completion on the same tree with the
\* same offset, every entry ends with the owner, group, permission bits and
\* extended attributes that one uninterrupted run gives it.
C11_AsStated ==
    (run = 2 /\ mainpc = "done")
    => \A e \in Entries : fs[e] = ProtocolResult(fs0[e], e)

\* What the code does give after an interruption: an entry the first run had
\* not reached, or had only read, ends as one uninterrupted run leaves it.
C11_UntouchedEntries ==
    (run = 2 /\ mainpc = "done")
    => \A e \in Entries :
          fsRun[e] = fs0[e] => fs[e] = ProtocolResult(fs0[e], e)

\* The attributes of e that the run found when it enumerated them, the reads
\* of e that failed, and what the run printed about an attribute of e.
Present(e) == {n \in XattrNames : fsRun[e].xattrs[n] # NoAttr}

Called(e, op, name) == \E k \in 1..Len(calls[e]) : calls[e][k] = Call(op, name)

ReadFailed(e) == {n \in Present(e) : Called(e, "getxattr", n) /\ Fails(e, "getxattr", n)}

Surfaced(e, name) ==
    \E k \in 1..Len(stderr) : stderr[k].path = e /\ stderr[k].name = name

\* C12 as stated: when the read of one attribute fails, that attribute alone
\* is left out of the backup and a warning about it is printed, every other
\* attribute is still backed up and written back, and the ownership change is
\* made; when the enumeration fails, the backup is empty and the ownership
\* change is still made.
C12_AsStated ==
    \A e \in Entries :
        outcome[e] = "shifted"
        => /\ \A n \in ReadFailed(e) :
                /\ Surfaced(e, n)
                /\ ~Called(e, "setxattr", n)
                /\ "lchown" \in OpsOf(e)
                /\ \A n2 \in Present(e) \ ReadFailed(e) : Called(e, "setxattr", n2)
           /\ Fails(e, "listxattr", "")
              => /\ "lchown" \in OpsOf(e)
                 /\ \A n \in XattrNames :
                      ~Called(e, "getxattr", n) /\ ~Called(e, "setxattr", n)

\* What the code does give: the attribute whose read failed is left out
\* without a word, the others are written back and the owner is changed.
C12_SilentlyDropped ==
    \A e \in Entries :
        outcome[e] = "shifted"
        => /\ \A n \in ReadFailed(e) :
                /\ ~Surfaced(e, n)
                /\ ~Called(e, "setxattr", n)
                /\ "lchown" \in OpsOf(e)
                /\ \A n2 \in Present(e) \ ReadFailed(e) : Called(e, "setxattr", n2)
           /\ Fails(e, "listxattr", "")
              => /\ "lchown" \in OpsOf(e)
                 /\ \A n \in XattrNames :
                      ~Called(e, "getxattr", n) /\ ~Called(e, "setxattr", n)

\* The attributes of e that the run has in its backup when it changes the owner.
Kept(e) ==
    IF Fails(e, "listxattr", "") THEN {}
    ELSE {n \in Present(e) : ~Fails(e, "getxattr", n)}

Warned(kind, e, name) ==
    \E k \in 1..Len(stderr) : stderr[k] = [kind |-> kind, path |-> e, name |-> name]

\* C13: after a successful ownership change, a failed mode restore is a
\* warning, a failed write-back of one attribute is a warning, every attribute
\* of the backup gets its write-back whatever else failed, and the entry is not
\* reported as an error.
C13_IndependentRestoration ==
    \A e \in Entries :
        outcome[e] = "shifted"
        => /\ (Called(e, "chmod", "") /\ Fails(e, "chmod", ""))
              => Warned("Warning: mode", e, "")
           /\ \A n \in Kept(e) :
                /\ Called(e, "setxattr", n)
                /\ IF Fails(e, "setxattr", n)
                   THEN Warned("Warning: xattr", e, n)
                   ELSE fs[e].xattrs[n] = backup_value(n, fsRun[e].xattrs[n]).val
           /\ ~Reported(e)

C13_Witness ==
    /\ outcome["a"] = "shifted"
    /\ failing = {<<"a", "chmod", "">>, <<"a", "setxattr", Capability>>}
    /\ Warned("Warning: mode", "a", "")
    /\ Warned("Warning: xattr", "a", Capability)
    /\ Called("a", "setxattr", AclAccess)
    /\ fs["a"].xattrs[AclAccess] # fsRun["a"].xattrs[AclAccess]

\* The ids the run has handed to os.lchown for e.
ChownIds(e) ==
    UNION {{calls[e][k].uid, calls[e][k].gid} :
              k \in {j \in 1..Len(calls[e]) : calls[e][j].op = "lchown"}}

\* The ids of the USER and GROUP entries of a well-formed ACL blob.
AclIds(blob) ==
    IF WellFormed(blob)
    THEN {EntryAt(blob, k).id : k \in {j \in 1..NumEntries(blob) : Qualifies(EntryAt(blob, j))}}
    ELSE {}

\* C14 as stated: every id the program hands to the ownership-change call or
\* writes into an ACL attribute lies in 0..IdMax, the range of the id field: a
\* shift beyond the field is rejected or saturated before the call, and no
\* shift gives a negative id.
C14_AsStated ==
    \A e \in Entries :
        /\ ChownIds(e) \subseteq 0..IdMax
        /\ \A n \in acl_xattrs :
              (Called(e, "setxattr", n) /\ ~Fails(e, "setxattr", n))
              => AclIds(fs[e].xattrs[n]) \subseteq 0..IdMax

\* What the code does give: no id handed to os.lchown is negative, and the ids
\* written into an ACL attribute lie in the id field.
C14_NeverNegative ==
    \A e \in Entries :
        /\ \A i \in ChownIds(e) : i >= 0
        /\ \A n \in acl_xattrs :
              (Called(e, "setxattr", n) /\ ~Fails(e, "setxattr", n))
              => AclIds(fs[e].xattrs[n]) \subseteq 0..IdMax

\* The id lies outside the range in which the offset shifts it.
OutsideRange(id, o) == (o > 0 /\ id >= Abs(o)) \/ (o < 0 /\ id < Abs(o))

\* C15: for a well-formed ACL blob and an offset that is not zero, when the id
\* of every USER and GROUP entry is outside the range the offset shifts, the
\* result of modify_acl_blob is its input, byte for byte.
C15_NoOp ==
    (/\ CodecDone
     /\ WellFormed(arg.blob)
     /\ arg.offset # 0
     /\ \A k \in 1..NumEntries(arg.blob) :
           Qualifies(EntryAt(arg.blob, k))
           => OutsideRange(EntryAt(arg.blob, k).id, arg.offset))
    => (res.exc = "none" /\ res.blob = arg.blob)

C15_Witness ==
    /\ CodecDone
    /\ arg.offset = 2
    /\ NumEntries(arg.blob) = 2
    /\ EntryAt(arg.blob, 1) = [tag |-> ACL_TAG_USER, perm |-> 5, id |-> 5]
    /\ EntryAt(arg.blob, 2) = [tag |-> ACL_TAG_GROUP, perm |-> 5, id |-> IdMax]
    /\ res.blob = arg.blob

\* C20: for every byte string and every offset, the result of modify_acl_blob
\* has the length of its input, and is either the input byte for byte or the
\* input with the id of every USER and GROUP entry replaced by its shift_id:
\* never a blob in which only some of them are shifted.
C20_AllOrNothing ==
    CodecDone
    => /\ res.exc = "none"
       /\ Len(res.blob) = Len(arg.blob)
       /\ \/ res.blob = arg.blob
          \/ WellFormed(arg.blob) /\ ShiftedCopy(arg.blob, res.blob, arg.offset)

\* The first entry could be shifted, the second cannot: nothing is shifted.
C20_Witness ==
    /\ CodecDone
    /\ arg.offset = IdMax
    /\ NumEntries(arg.blob) = 2
    /\ EntryAt(arg.blob, 1) = [tag |-> ACL_TAG_USER, perm |-> 5, id |-> 0]
    /\ EntryAt(arg.blob, 2) = [tag |-> ACL_TAG_GROUP, perm |-> 5, id |-> 1]
    /\ res.blob = arg.blob

\* Both entries are shifted.
C20_WitnessShifted ==
    /\ CodecDone
    /\ arg.offset = 2
    /\ NumEntries(arg.blob) = 2
    /\ EntryAt(arg.blob, 1).id = 0
    /\ EntryAt(res.blob, 1).id = 2
    /\ EntryAt(arg.blob, 2).id = 1
    /\ EntryAt(res.blob, 2).id = 3

\* The place of a call in the protocol, and the calls of the run on e by name.
Rank(op) ==
    CASE op = "lstat"     -> 1
      [] op = "listxattr" -> 2
      [] op = "getxattr"  -> 3
      [] op = "lchown"    -> 4
      [] op = "chmod"     -> 5
      [] op = "setxattr"  -> 6

OpSeq(e) == [k \in 1..Len(calls[e]) |-> calls[e][k].op]

Times(e, op) == Cardinality({k \in 1..Len(calls[e]) : calls[e][k].op = op})

\* C16: the calls made on an entry come in the order lstat, attribute
\* enumeration, attribute reads, one lchown, mode restore, attribute
\* write-backs: no attribute is read after the lchown and no chmod or setxattr
\* comes before it; an entry that reaches the lchown has had its attributes
\* enumerated and every attribute found read.
C16_StepOrder ==
    \A e \in Entries :
        /\ \A j, k \in 1..Len(calls[e]) :
              j < k => Rank(calls[e][j].op) <= Rank(calls[e][k].op)
        /\ \A op \in {"lstat", "listxattr", "lchown", "chmod"} : Times(e, op) <= 1
        /\ calls[e] # <<>> => calls[e][1].op = "lstat"
        /\ "lchown" \in OpsOf(e)
           => /\ "listxattr" \in OpsOf(e)
              /\ ~Fails(e, "listxattr", "")
                 => \A n \in Present(e) : Called(e, "getxattr", n)
        /\ ({"chmod", "setxattr"} \cap OpsOf(e) # {}) => "lchown" \in OpsOf(e)

C16_Witness ==
    /\ outcome["a"] = "shifted"
    /\ OpSeq("a") = <<"lstat", "listxattr", "getxattr", "getxattr", "lchown", "chmod",
                      "setxattr", "setxattr">>

\* The entry shift_file is working on, or is about to be called on.
Current ==
    IF pc # "idle" THEN loc.path
    ELSE IF mainpc = "walk" /\ wi <= Len(MainCalls(listRev))
    THEN MainCalls(listRev)[wi]
    ELSE "none"

\* C17: the protocol of a symlink applies the ownership change to the link
\* itself, never issues a mode change for it, and no step of it alters the
\* owner, group, mode or attributes of any other entry, the link's target
\* included.
C17_SymlinkItself ==
    [][\A e \in Entries :
          Kind[e] = "symlink"
          => /\ "chmod" \notin {calls'[e][k].op : k \in 1..Len(calls'[e])}
             /\ Current = e
                => /\ \A x \in Entries \ {e} : fs'[x] = fs[x]
                   /\ (pc = "lchown" /\ outcome'[e] \notin {"lchown_failed", "raised"})
                      => fs'[e] = chown_effect(fs[e], loc.new_uid, loc.new_gid, clears)]_vars

\* The link fl has its new owner while its target b is as the run found it.
C17_Witness ==
    /\ outcome["fl"] = "shifted"
    /\ outcome["b"] = "pending"
    /\ fs["fl"].uid # fsRun["fl"].uid
    /\ fs["fl"].mode = fsRun["fl"].mode
    /\ Called("fl", "setxattr", Capability)
    /\ fs["b"] = fsRun["b"]

\* No read and no write of an attribute of e fails.
XattrCallsSucceed(e) ==
    \A f \in failing : f[1] = e => f[2] \notin {"listxattr", "getxattr", "setxattr"}

\* C18: an entry whose ownership the protocol changed, and whose attribute
\* reads and writes all succeeded, ends the protocol with every attribute other
\* than the two ACL attributes holding the bytes it held before the protocol.
C18_NonAclVerbatim ==
    \A e \in Entries :
        (outcome[e] = "shifted" /\ XattrCallsSucceed(e))
        => \A n \in XattrNames \ acl_xattrs : fs[e].xattrs[n] = fsRun[e].xattrs[n]

\* The ownership change dropped the capability of a (and its setuid bit, which
\* the failed chmod did not bring back), and the write-back restored it.
C18_Witness ==
    /\ clears
    /\ outcome["a"] = "shifted"
    /\ Fails("a", "chmod", "")
    /\ fs["a"].mode # fsRun["a"].mode
    /\ Called("a", "setxattr", Capability)
    /\ fs["a"].xattrs[Capability] = CapOfA

\* The lstat or the lchown that the run made on e failed.
OwnershipChangeFailed(e) ==
    \/ "lstat" \in OpsOf(e) /\ Fails(e, "lstat", "")
    \/ "lchown" \in OpsOf(e) /\ Fails(e, "lchown", "")
    \/ outcome[e] = "raised"

\* C19: when the lstat or the lchown of an entry fails, no chmod and no
\* setxattr is issued for it, and its owner, group, mode and attributes are
\* what they were before the protocol started.
C19_FailureMutatesNothing ==
    \A e \in Entries :
        OwnershipChangeFailed(e)
        => /\ "chmod" \notin OpsOf(e)
           /\ "setxattr" \notin OpsOf(e)
           /\ fs[e] = fsRun[e]

C19_Witness ==
    /\ Fails("a", "lchown", "")
    /\ outcome["a"] = "lchown_failed"
    /\ OpSeq("a") = <<"lstat", "listxattr", "getxattr", "getxattr", "lchown">>
    /\ fs["a"] = fsRun["a"]
    /\ mainpc = "done"

====
